---- MODULE Spec2Model ----
(***************************************************************************)
(* Model of rename.py: rename_files_with_deduplication(dry_run).           *)
(*                                                                         *)
(* A filename is a sequence of one-character strings.  The directory is a  *)
(* function from the names present to their entries.  One invocation of    *)
(* the function is Start (listing, grouping, planning), then one Iterate   *)
(* per pair of the plan, a Rename for every pair that reaches os.rename,   *)
(* and Finish.                                                             *)
(***************************************************************************)
EXTENDS Integers, Sequences, FiniteSets, TLC

VARIABLES
    fs,           \* the working directory: name -> entry
    before,       \* the directory as it was when the current invocation began
    dry_run,      \* the parameter of the current invocation
    pc,           \* position of the invocation
    rename_plan,  \* the dict rename_plan, as the sequence of its items
    idx,          \* position of the for loop of line 78 in rename_plan
    out,          \* the lines printed by the current invocation
    calls,        \* the os.rename calls of the current invocation
    last_run,     \* summary of the invocation completed before the current one
    files,        \* a directory listing (planning specification only)
    seen          \* matching set and plan of the listing planned before

vars == <<fs, before, dry_run, pc, rename_plan, idx, out, calls, last_run,
          files, seen>>

(***************************************************************************)
(* Characters and strings                                                  *)
(***************************************************************************)

\* Code points of the characters that occur in the names of the model.
Ord ==
    ("\n" :> 10) @@ ("-" :> 45) @@ ("." :> 46) @@
    ("0" :> 48) @@ ("1" :> 49) @@ ("2" :> 50) @@ ("3" :> 51) @@ ("4" :> 52) @@
    ("5" :> 53) @@ ("6" :> 54) @@ ("7" :> 55) @@ ("8" :> 56) @@ ("9" :> 57) @@
    ("A" :> 65) @@ ("B" :> 66) @@ ("G" :> 71) @@ ("H" :> 72) @@ ("J" :> 74) @@ ("M" :> 77) @@
    ("O" :> 79) @@ ("P" :> 80) @@ ("T" :> 84) @@ ("Z" :> 90) @@ ("_" :> 95) @@
    ("a" :> 97) @@ ("b" :> 98) @@ ("c" :> 99) @@ ("e" :> 101) @@
    ("g" :> 103) @@ ("h" :> 104) @@ ("i" :> 105) @@ ("j" :> 106) @@
    ("m" :> 109) @@ ("n" :> 110) @@ ("o" :> 111) @@ ("p" :> 112) @@
    ("t" :> 116) @@ ("v" :> 118)

Chr(n) == CHOOSE c \in DOMAIN Ord : Ord[c] = n

\* \d of the pattern; the names of the model are ASCII.
IsDigit(c) == Ord[c] >= Ord["0"] /\ Ord[c] <= Ord["9"]

\* Case folding of re.IGNORECASE.
Lower(c) ==
    IF Ord[c] >= Ord["A"] /\ Ord[c] <= Ord["Z"]
    THEN Chr(Ord[c] + (Ord["a"] - Ord["A"]))
    ELSE c

\* Python's str < str: lexicographic by code point, a proper prefix first.
RECURSIVE StrLessFrom(_, _, _)
StrLessFrom(a, b, k) ==
    IF k > Len(b) THEN FALSE
    ELSE IF k > Len(a) THEN TRUE
    ELSE IF Ord[a[k]] < Ord[b[k]] THEN TRUE
    ELSE IF Ord[a[k]] > Ord[b[k]] THEN FALSE
    ELSE StrLessFrom(a, b, k + 1)

StrLess(a, b) == StrLessFrom(a, b, 1)

\* str(i) of a positive integer, as the f-string of line 69 formats it.
RECURSIVE IntToStr(_)
IntToStr(n) ==
    IF n < 10 THEN <<Chr(Ord["0"] + n)>>
    ELSE IntToStr(n \div 10) \o <<Chr(Ord["0"] + (n % 10))>>

(***************************************************************************)
(* The names the directories of the model are made of                      *)
(***************************************************************************)

Stamp2022 ==
    <<"2", "0", "2", "2", "-", "0", "1", "-", "1", "4", "-",
      "1", "4", "-", "3", "3", "-", "0", "0">>

Stamp2023 ==
    <<"2", "0", "2", "3", "-", "0", "5", "-", "0", "1", "-",
      "0", "9", "-", "0", "0", "-", "0", "0">>

\* 2022-01-14-14-33-00_photo_12.683_MB.jpg
Photo12 ==
    Stamp2022 \o <<"_", "p", "h", "o", "t", "o", "_", "1", "2", ".", "6", "8", "3",
                   "_", "M", "B", ".", "j", "p", "g">>

\* 2022-01-14-14-33-00_photo_9.1_MB.JPG
Photo9 ==
    Stamp2022 \o <<"_", "p", "h", "o", "t", "o", "_", "9", ".", "1",
                   "_", "M", "B", ".", "J", "P", "G">>

\* 2022-01-14-14-33-00_PHOTO_9.1_mb.jpg
PhotoUpper ==
    Stamp2022 \o <<"_", "P", "H", "O", "T", "O", "_", "9", ".", "1",
                   "_", "m", "b", ".", "j", "p", "g">>

\* 2023-05-01-09-00-00_photo_3.2_MB.jpg
Photo3 ==
    Stamp2023 \o <<"_", "p", "h", "o", "t", "o", "_", "3", ".", "2",
                   "_", "M", "B", ".", "j", "p", "g">>

\* 2023-05-01-09-00-00_photo_3.2_MB.jpg followed by a newline
PhotoNewline == Photo3 \o <<"\n">>

\* 2022-01-14-14-33-00_photo__MB.jpg: no size, not a match
PhotoNoSize ==
    Stamp2022 \o <<"_", "p", "h", "o", "t", "o", "_", "_", "M", "B", ".", "j", "p", "g">>

\* vacation.jpg
Vacation == <<"v", "a", "c", "a", "t", "i", "o", "n", ".", "j", "p", "g">>

Key2022 ==
    <<"2", "0", "2", "2", "0", "1", "1", "4", "_", "1", "4", "3", "3", "0", "0",
      "_", "p", "h", "o", "t", "o">>

Key2023 ==
    <<"2", "0", "2", "3", "0", "5", "0", "1", "_", "0", "9", "0", "0", "0", "0",
      "_", "p", "h", "o", "t", "o">>

\* 20220114_143300_photo_1.jpg
Target2022n1 == Key2022 \o <<"_", "1", ".", "j", "p", "g">>

\* 20220114_143300_photo_2.JPG
Target2022n2 == Key2022 \o <<"_", "2", ".", "J", "P", "G">>

\* 20230501_090000_photo.jpg
Target2023 == Key2023 \o <<".", "j", "p", "g">>

\* The names of the listings of the planning specification.
PlanNames ==
    {Photo12, Photo9, PhotoUpper, Photo3, PhotoNewline, PhotoNoSize, Vacation,
     Target2022n1}

\* The names of the directories of the run specifications.
DirNames == {Photo12, Photo9, Photo3, Vacation, Target2022n1, Target2023}

(***************************************************************************)
(* PATTERN and re.match                                                    *)
(***************************************************************************)

Digit == [tok |-> "digit", arg |-> ""]
Lit(c) == [tok |-> "lit", arg |-> c]
Open(g) == [tok |-> "open", arg |-> g]
Close(g) == [tok |-> "close", arg |-> g]
SizeRun == [tok |-> "plus", arg |-> ""]
EndAnchor == [tok |-> "end", arg |-> ""]

\* (\d{4})-(\d{2})-(\d{2})-(\d{2})-(\d{2})-(\d{2})_photo_[\d\.]+_MB(\.jpg)$
PATTERN ==
    <<Open(1), Digit, Digit, Digit, Digit, Close(1), Lit("-"),
      Open(2), Digit, Digit, Close(2), Lit("-"),
      Open(3), Digit, Digit, Close(3), Lit("-"),
      Open(4), Digit, Digit, Close(4), Lit("-"),
      Open(5), Digit, Digit, Close(5), Lit("-"),
      Open(6), Digit, Digit, Close(6),
      Lit("_"), Lit("p"), Lit("h"), Lit("o"), Lit("t"), Lit("o"), Lit("_"),
      SizeRun,
      Lit("_"), Lit("M"), Lit("B"),
      Open(7), Lit("."), Lit("j"), Lit("p"), Lit("g"), Close(7),
      EndAnchor>>

NoMatch == <<>>

NoGroups == [g \in 1..7 |-> <<0, 0>>]

\* Length of the run of characters of [\d\.] that starts at pos.
RECURSIVE ClassRun(_, _)
ClassRun(s, pos) ==
    IF pos <= Len(s) /\ (IsDigit(s[pos]) \/ s[pos] = ".")
    THEN 1 + ClassRun(s, pos + 1)
    ELSE 0

\* The backtracking matcher: token k of PATTERN against s from pos on.
\* The result is the spans of the seven groups, or NoMatch.
RECURSIVE MatchFrom(_, _, _, _)
RECURSIVE MatchPlus(_, _, _, _, _)
MatchFrom(s, k, pos, groups) ==
    IF k > Len(PATTERN) THEN groups
    ELSE LET t == PATTERN[k] IN
        CASE t.tok = "open" ->
                MatchFrom(s, k + 1, pos, [groups EXCEPT ![t.arg] = <<pos, pos>>])
          [] t.tok = "close" ->
                MatchFrom(s, k + 1, pos,
                          [groups EXCEPT ![t.arg] = <<groups[t.arg][1], pos>>])
          [] t.tok = "digit" ->
                IF pos <= Len(s) /\ IsDigit(s[pos])
                THEN MatchFrom(s, k + 1, pos + 1, groups)
                ELSE NoMatch
          [] t.tok = "lit" ->
                IF pos <= Len(s) /\ Lower(s[pos]) = Lower(t.arg)
                THEN MatchFrom(s, k + 1, pos + 1, groups)
                ELSE NoMatch
          [] t.tok = "plus" ->
                MatchPlus(s, k, pos, groups, ClassRun(s, pos))
          [] t.tok = "end" ->
                IF pos = Len(s) + 1 \/ (pos = Len(s) /\ s[pos] = "\n")
                THEN MatchFrom(s, k + 1, pos, groups)
                ELSE NoMatch

\* [\d\.]+ is greedy: the longest run first, then shorter ones, never empty.
MatchPlus(s, k, pos, groups, n) ==
    IF n < 1 THEN NoMatch
    ELSE LET r == MatchFrom(s, k + 1, pos + n, groups) IN
         IF r # NoMatch THEN r ELSE MatchPlus(s, k, pos, groups, n - 1)

\* PATTERN.match(f): anchored at the start of f.
ReMatch(f) == MatchFrom(f, 1, 1, NoGroups)

\* re.match is a function of the name alone: its results on the names of the
\* model are computed once.
MatchTable == [f \in PlanNames \cup DirNames |-> ReMatch(f)]

Match(f) == IF f \in DOMAIN MatchTable THEN MatchTable[f] ELSE ReMatch(f)

\* The truth value of a match object: None is false.
Matches(f) == Match(f) # NoMatch

\* match.group(g) of the match object m of f
Group(f, m, g) == SubSeq(f, m[g][1], m[g][2] - 1)

(***************************************************************************)
(* Steps 1 to 3: listing, grouping, the rename plan                        *)
(***************************************************************************)

\* Line 22: the entries of the listing that match, in listing order.
MatchingFiles(listing) == SelectSeq(listing, Matches)

\* Line 41: f"{year}{month}{day}_{hour}{minute}{second}_photo"
NewBaseName(f, m) ==
    Group(f, m, 1) \o Group(f, m, 2) \o Group(f, m, 3) \o <<"_">> \o
    Group(f, m, 4) \o Group(f, m, 5) \o Group(f, m, 6) \o
    <<"_", "p", "h", "o", "t", "o">>

\* Line 44: timestamp_groups[new_base_name].append(original_name).  The
\* defaultdict keeps its keys in the order of their first insertion.
GroupAppend(groups, key, original_name) ==
    IF \E j \in 1..Len(groups) : groups[j].key = key
    THEN [j \in 1..Len(groups) |->
            IF groups[j].key = key
            THEN [groups[j] EXCEPT !.originals = Append(@, original_name)]
            ELSE groups[j]]
    ELSE Append(groups, [key |-> key, originals |-> <<original_name>>])

\* Lines 32-47: the loop over matching_files.
RECURSIVE TimestampGroups(_, _)
TimestampGroups(matching_files, k) ==
    IF k = 0 THEN <<>>
    ELSE LET original_name == matching_files[k]
             match == Match(original_name)
         IN  IF match # NoMatch
             THEN GroupAppend(TimestampGroups(matching_files, k - 1),
                              NewBaseName(original_name, match), original_name)
             ELSE TimestampGroups(matching_files, k - 1)

\* Mutant: the sort of line 53 left out.
SortOriginalsMissing(originals) == originals

\* Line 53: originals.sort()
SortOriginals(originals) == SortSeq(originals, StrLess)

\* rename_plan[original_name] = new_name: a dict keeps a key's first
\* position when the key is assigned again.
DictSet(plan, original_name, new_name) ==
    IF \E j \in 1..Len(plan) : plan[j].original = original_name
    THEN [j \in 1..Len(plan) |->
            IF plan[j].original = original_name
            THEN [plan[j] EXCEPT !.new = new_name]
            ELSE plan[j]]
    ELSE Append(plan, [original |-> original_name, new |-> new_name])

\* Line 59: f"{new_base_name}{extension}"
SingleName(new_base_name, original_name) ==
    new_base_name \o Group(original_name, Match(original_name), 7)

\* Mutant: enumerate(originals) counts from 0.
SuffixedNameFromZero(new_base_name, i, original_name) ==
    new_base_name \o <<"_">> \o IntToStr(i - 1) \o
    Group(original_name, Match(original_name), 7)

\* Line 69: f"{new_base_name}_{i}{extension}"
SuffixedName(new_base_name, i, original_name) ==
    new_base_name \o <<"_">> \o IntToStr(i) \o
    Group(original_name, Match(original_name), 7)

\* Lines 63-72: enumerate(originals, 1), the first k members.
RECURSIVE PlanDuplicates(_, _, _, _)
PlanDuplicates(plan, new_base_name, originals, k) ==
    IF k = 0 THEN plan
    ELSE LET original_name == originals[k] IN
         IF Matches(original_name)
         THEN DictSet(PlanDuplicates(plan, new_base_name, originals, k - 1),
                      original_name,
                      SuffixedName(new_base_name, k, original_name))
         ELSE PlanDuplicates(plan, new_base_name, originals, k - 1)

\* Mutant: every member of a group is named as if it were alone.
RECURSIVE PlanUnsuffixed(_, _, _, _)
PlanUnsuffixed(plan, new_base_name, originals, k) ==
    IF k = 0 THEN plan
    ELSE DictSet(PlanUnsuffixed(plan, new_base_name, originals, k - 1),
                 originals[k], SingleName(new_base_name, originals[k]))

PlanGroupUnsuffixed(plan, group) ==
    LET originals == SortOriginals(group.originals) IN
    PlanUnsuffixed(plan, group.key, originals, Len(originals))

\* Lines 51-72: the body of the loop over timestamp_groups, for one group.
PlanGroup(plan, group) ==
    LET originals == SortOriginals(group.originals) IN
    IF Len(originals) = 1
    THEN DictSet(plan, originals[1], SingleName(group.key, originals[1]))
    ELSE PlanDuplicates(plan, group.key, originals, Len(originals))

\* Lines 50-72: the loop over timestamp_groups.items(), the first k groups.
RECURSIVE PlanGroups(_, _)
PlanGroups(groups, k) ==
    IF k = 0 THEN <<>>
    ELSE PlanGroup(PlanGroups(groups, k - 1), groups[k])

\* Lines 32-72: the rename plan of matching_files.
PlanOf(matching_files) ==
    LET groups == TimestampGroups(matching_files, Len(matching_files))
    IN  PlanGroups(groups, Len(groups))

\* Lines 22-72: the rename plan of a directory listing.
BuildPlan(listing) == PlanOf(MatchingFiles(listing))

\* The orders in which os.listdir may return the names of a set.
Orders(S) ==
    {s \in [1..Cardinality(S) -> S] :
        \A i, j \in 1..Cardinality(S) : i # j => s[i] # s[j]}

Range(s) == {s[k] : k \in 1..Len(s)}

MatchingSet(listing) == {f \in Range(listing) : Matches(f)}

\* The largest number of entries of a directory of the model.
MaxEntries == 3

(***************************************************************************)
(* The planning specification: the plan as a function of the listing       *)
(***************************************************************************)

None == [none |-> TRUE]

\* The listings of at most MaxEntries names.
Listings ==
    UNION {Orders(S) : S \in {X \in SUBSET PlanNames : Cardinality(X) <= MaxEntries}}

\* The listings of directories with the matching names of listing: another
\* order, other entries that do not match.
Relistings(listing) ==
    LET M == MatchingSet(listing)
        others == {f \in PlanNames : ~Matches(f)}
    IN  UNION {Orders(M \cup X) :
                X \in {Y \in SUBSET others : Cardinality(M \cup Y) <= MaxEntries}}

InitPlan ==
    /\ files \in Listings
    /\ pc = "listed"
    /\ rename_plan = <<>>
    /\ seen = None
    /\ fs = <<>>
    /\ before = <<>>
    /\ dry_run = TRUE
    /\ idx = 1
    /\ out = <<>>
    /\ calls = <<>>
    /\ last_run = None

\* Lines 22-72 on the listing files.
Plan ==
    /\ pc = "listed"
    /\ rename_plan' = BuildPlan(files)
    /\ pc' = "planned"
    /\ UNCHANGED <<files, seen, fs, before, dry_run, idx, out, calls, last_run>>

\* Line 19 of a later invocation, over the same matching names.
Relist ==
    /\ pc = "planned"
    /\ seen = None
    /\ files' \in Relistings(files)
    /\ seen' = [files |-> files, rename_plan |-> rename_plan]
    /\ rename_plan' = <<>>
    /\ pc' = "listed"
    /\ UNCHANGED <<fs, before, dry_run, idx, out, calls, last_run>>

NextPlan == Plan \/ Relist

SpecPlan == InitPlan /\ [][NextPlan]_vars

(***************************************************************************)
(* The filesystem calls                                                    *)
(***************************************************************************)

\* The target of the dangling links of the model: never the name of an entry.
Missing == <<"g", "o", "n", "e">>

\* A symbolic link of the model points to a name of its own directory.
LinkTargets == {Photo12, Missing}

\* What an entry can be: a regular file, a directory, a symbolic link.
EntryShapes ==
    {[kind |-> "file", target |-> <<>>], [kind |-> "dir", target |-> <<>>]}
    \cup {[kind |-> "link", target |-> t] : t \in LinkTargets}

\* The directories of at most MaxEntries entries.  An entry carries its
\* identity: where it came from and the name it had then.
Directories ==
    UNION {{[n \in S |-> [id |-> [origin |-> "initial", name |-> n],
                          kind |-> d[n].kind, target |-> d[n].target]] :
                d \in [S -> EntryShapes]} :
           S \in {X \in SUBSET DirNames : Cardinality(X) <= MaxEntries}}

\* os.stat follows symbolic links; a loop of links is an error.
RECURSIVE Stat(_, _, _)
Stat(dir, name, hops) ==
    IF name \notin DOMAIN dir THEN FALSE
    ELSE IF dir[name].kind # "link" THEN TRUE
    ELSE IF hops = 0 THEN FALSE
    ELSE Stat(dir, dir[name].target, hops - 1)

\* Mutant: the existence check always finds nothing.
PathExistsNever(dir, name) == FALSE

\* Line 84, os.path.exists(new): whether os.stat(new) succeeds, so False
\* for a symbolic link whose target does not exist.
PathExists(dir, name) == Stat(dir, name, Cardinality(DOMAIN dir))

\* Line 91, os.rename(original, new), when it can succeed on POSIX: the
\* destination is absent, or it is replaced: a file or link by a file or
\* link, a directory (if empty) by a directory.
RenameAllowed(dir, src, dst) ==
    /\ src \in DOMAIN dir
    /\ IF dst \in DOMAIN dir
       THEN (dir[src].kind = "dir") = (dir[dst].kind = "dir")
       ELSE TRUE

\* The directory after os.rename(src, dst) succeeded.
Renamed(dir, src, dst) ==
    [n \in (DOMAIN dir \ {src}) \cup {dst} |->
        IF n = dst THEN dir[src] ELSE dir[n]]

(***************************************************************************)
(* rename_files_with_deduplication(dry_run)                                *)
(***************************************************************************)

Line(text, original, new) == [text |-> text, original |-> original, new |-> new]

Call(src, dst, ok) == [src |-> src, dst |-> dst, ok |-> ok]

\* The pairs the lines of the given kind were printed for.
Reported(lines, text) ==
    {<<lines[k].original, lines[k].new>> :
        k \in {j \in 1..Len(lines) : lines[j].text = text}}

CountCalls(cs, ok) == Cardinality({k \in 1..Len(cs) : cs[k].ok = ok})

\* What is remembered of an invocation that returned.
Summary ==
    [dry_run |-> dry_run,
     renamed |-> CountCalls(calls, TRUE),
     failed |-> CountCalls(calls, FALSE),
     renaming |-> Reported(out, "Renaming"),
     conflict |-> Reported(out, "Conflict")]

\* Mutant: the flag of line 89 is ignored.
IssuesRenameAlways(flag) == TRUE

\* Line 89: if not dry_run
IssuesRename(flag) == ~flag

\* Mutant: the OSError is not caught and ends the invocation.
ExceptOSErrorUncaught(k) == [pc |-> "aborted", idx |-> k]

\* Lines 92-93: the handler ends, the for loop goes on with the next pair.
ExceptOSError(k) == [pc |-> "loop", idx |-> k + 1]

Init ==
    /\ fs \in Directories
    /\ before = fs
    /\ dry_run = TRUE
    /\ pc = "idle"
    /\ rename_plan = <<>>
    /\ idx = 1
    /\ out = <<>>
    /\ calls = <<>>
    /\ last_run = None
    /\ files = <<>>
    /\ seen = None

\* Line 19, os.listdir('.'): the names of the entries, in any order.
ListDir(dir) == Orders(DOMAIN dir)

\* Lines 13-76: a call of the function.
RunFunction ==
    /\ \E flag \in BOOLEAN, listing \in ListDir(fs) :
        LET matching_files == MatchingFiles(listing) IN
        /\ dry_run' = flag
        /\ before' = fs
        /\ last_run' = IF pc = "done" THEN Summary ELSE last_run
        /\ calls' = <<>>
        /\ idx' = 1
        /\ IF matching_files = <<>>
           THEN /\ rename_plan' = <<>>
                /\ out' = <<Line("No files found", <<>>, <<>>)>>
                /\ pc' = "done"
           ELSE /\ rename_plan' = PlanOf(matching_files)
                /\ out' = <<Line("Found", <<>>, <<>>), Line("Starting", <<>>, <<>>)>>
                /\ pc' = "loop"
    /\ UNCHANGED <<fs, files, seen>>

\* Lines 98-108: the script is run, as a preview or with 'execute'.
Start == pc = "idle" /\ RunFunction

\* The script is run again after it returned.
Restart == pc = "done" /\ RunFunction

\* Lines 78-89: one pair of the plan, up to the call of os.rename.
Iterate ==
    /\ pc = "loop"
    /\ idx <= Len(rename_plan)
    /\ LET original == rename_plan[idx].original
           new == rename_plan[idx].new
       IN  IF original = new
           THEN /\ out' = Append(out, Line("Skipping", original, new))
                /\ idx' = idx + 1
                /\ pc' = "loop"
           ELSE IF PathExists(fs, new) /\ new # original
           THEN /\ out' = Append(out, Line("Conflict", original, new))
                /\ idx' = idx + 1
                /\ pc' = "loop"
           ELSE /\ out' = Append(out, Line("Renaming", original, new))
                /\ IF IssuesRename(dry_run)
                   THEN pc' = "rename" /\ idx' = idx
                   ELSE pc' = "loop" /\ idx' = idx + 1
    /\ UNCHANGED <<fs, before, dry_run, rename_plan, calls, last_run, files, seen>>

\* Lines 90-93: os.rename(original, new).  It may raise OSError whatever the
\* directory holds (permissions, a read-only filesystem, and on Windows
\* every destination that exists).
Rename ==
    /\ pc = "rename"
    /\ LET original == rename_plan[idx].original
           new == rename_plan[idx].new
       IN  \/ /\ RenameAllowed(fs, original, new)
              /\ fs' = Renamed(fs, original, new)
              /\ calls' = Append(calls, Call(original, new, TRUE))
              /\ out' = out
              /\ pc' = "loop"
              /\ idx' = idx + 1
           \/ /\ fs' = fs
              /\ calls' = Append(calls, Call(original, new, FALSE))
              /\ out' = Append(out, Line("Failed", original, new))
              /\ pc' = ExceptOSError(idx).pc
              /\ idx' = ExceptOSError(idx).idx
    /\ UNCHANGED <<before, dry_run, rename_plan, last_run, files, seen>>

\* Line 95: the plan is exhausted, the summary is printed.
Finish ==
    /\ pc = "loop"
    /\ idx > Len(rename_plan)
    /\ out' = Append(out, Line("Completed", <<>>, <<>>))
    /\ pc' = "done"
    /\ UNCHANGED <<fs, before, dry_run, rename_plan, idx, calls, last_run, files, seen>>

Next == Start \/ Iterate \/ Rename \/ Finish

\* One run of the script; nothing else touches the directory.
Spec == Init /\ [][Next]_vars

NextAgain == Next \/ Restart

\* The script is run again and again; nothing else touches the directory.
SpecAgain == Init /\ [][NextAgain]_vars

\* The program runs on until it returns.
SpecLive == Spec /\ WF_vars(Iterate) /\ WF_vars(Rename) /\ WF_vars(Finish)

\* Another process creates the file the program is about to rename onto,
\* after the check of line 84 and before the call of line 91.
OtherActor ==
    /\ pc = "rename"
    /\ rename_plan[idx].new \notin DOMAIN fs
    /\ fs' = [n \in DOMAIN fs \cup {rename_plan[idx].new} |->
                IF n \in DOMAIN fs THEN fs[n]
                ELSE [id |-> [origin |-> "other", name |-> n],
                      kind |-> "file", target |-> <<>>]]
    /\ UNCHANGED <<before, dry_run, pc, rename_plan, idx, out, calls, last_run,
                   files, seen>>

NextRace == Next \/ OtherActor

SpecRace == Init /\ [][NextRace]_vars

(***************************************************************************)
(* Properties of the plan                                                  *)
(***************************************************************************)

\* The plan as a mapping: the set of its (original, new) pairs.
PlanMap(plan) == {<<plan[k].original, plan[k].new>> : k \in 1..Len(plan)}

\* The base key of a matching name, read off its fixed-width fields.
KeyOf(f) ==
    SubSeq(f, 1, 4) \o SubSeq(f, 6, 7) \o SubSeq(f, 9, 10) \o <<"_">> \o
    SubSeq(f, 12, 13) \o SubSeq(f, 15, 16) \o SubSeq(f, 18, 19) \o
    <<"_", "p", "h", "o", "t", "o">>

\* The extension of a matching name, in its own case.
ExtensionOf(f) ==
    LET e == IF f[Len(f)] = "\n" THEN Len(f) - 1 ELSE Len(f)
    IN  SubSeq(f, e - 3, e)

GroupOf(f, M) == {g \in M : KeyOf(g) = KeyOf(f)}

\* The position of f in its group, in ascending order of the names.
RankOf(f, M) == 1 + Cardinality({g \in GroupOf(f, M) : StrLess(g, f)})

DecimalDigit == <<"1", "2", "3", "4", "5", "6", "7", "8", "9">>

ExpectedName(f, M) ==
    IF Cardinality(GroupOf(f, M)) = 1
    THEN KeyOf(f) \o ExtensionOf(f)
    ELSE KeyOf(f) \o <<"_", DecimalDigit[RankOf(f, M)]>> \o ExtensionOf(f)

\* C4: the plan has exactly one entry per matching file; a file alone in its
\* group maps to <base-key><extension>, and the i-th file of a larger group,
\* in ascending order of the original names, maps to
\* <base-key>_<i><extension>, the extension in the file's own case.
SuffixAssignment ==
    pc = "planned" =>
        LET M == MatchingSet(files) IN
        /\ Len(rename_plan) = Cardinality(M)
        /\ \A f \in M :
            \E k \in 1..Len(rename_plan) :
                /\ rename_plan[k].original = f
                /\ rename_plan[k].new = ExpectedName(f, M)

\* A plan with a group of two, the second with an upper-case extension, and a
\* file alone in its group.
SuffixAssignmentWitness ==
    /\ pc = "planned"
    /\ PlanMap(rename_plan) =
        {<<Photo12, Target2022n1>>, <<Photo9, Target2022n2>>,
         <<Photo3, Target2023>>}

\* C8: two listings with the same matching names give the same mapping
\* original -> new, whatever the order of the listings and whatever other
\* entries they hold.
PlanDeterminism ==
    (pc = "planned" /\ seen # None
        /\ MatchingSet(seen.files) = MatchingSet(files))
    => PlanMap(rename_plan) = PlanMap(seen.rename_plan)

\* Two listings that return the two members of a group in opposite orders
\* and hold different entries that do not match.
PlanDeterminismWitness ==
    /\ pc = "planned"
    /\ seen # None
    /\ MatchingFiles(seen.files) = <<Photo9, Photo12>>
    /\ MatchingFiles(files) = <<Photo12, Photo9>>
    /\ Range(seen.files) \ MatchingSet(files) # Range(files) \ MatchingSet(files)

\* C9: no two entries of the plan have the same new name, within a group and
\* across groups.
TargetsDistinct ==
    pc = "planned" =>
        \A j, k \in 1..Len(rename_plan) :
            j # k => rename_plan[j].new # rename_plan[k].new

\* A plan with two entries of one group that have the same extension, and an
\* entry of another group.
TargetsDistinctWitness ==
    /\ pc = "planned"
    /\ \E j, k, l \in 1..Len(rename_plan) :
        /\ j # k
        /\ KeyOf(rename_plan[j].original) = KeyOf(rename_plan[k].original)
        /\ ExtensionOf(rename_plan[j].original) = ExtensionOf(rename_plan[k].original)
        /\ KeyOf(rename_plan[l].original) # KeyOf(rename_plan[j].original)

(***************************************************************************)
(* Properties of the runs                                                  *)
(***************************************************************************)

\* The pair the for loop is at.
Original == rename_plan[idx].original

New == rename_plan[idx].new

\* The identities of the entries of a directory.
Ids(dir) == {dir[n].id : n \in DOMAIN dir}

\* C1: a rename original -> new is performed only when no entry named new
\* exists at that moment, and no entry of the directory is lost by a step
\* of the run.
CollisionSafety ==
    [][fs' # fs => (New \notin DOMAIN fs /\ Ids(fs) \subseteq Ids(fs'))]_vars

OnlyFiles(dir) == \A n \in DOMAIN dir : dir[n].kind = "file"

\* C2: an apply run that follows an apply run performs no rename.  (Stated
\* for directories of regular files and a first run in which no rename
\* failed: what the first run left undone it left because of conflicts.)
Idempotence ==
    (last_run # None /\ ~last_run.dry_run /\ last_run.failed = 0 /\ ~dry_run
        /\ OnlyFiles(before))
    => CountCalls(calls, TRUE) = 0

\* C3: in a run with dry_run=True the directory is, in every state, what it
\* was when the run began.
PreviewNeverMutates == dry_run => fs = before

\* A preview that returned after it reported a pair as to be renamed.
PreviewNeverMutatesWitness ==
    /\ dry_run
    /\ pc = "done"
    /\ Reported(out, "Renaming") # {}
    /\ Reported(out, "Conflict") # {}

\* C5: a pair whose new name is the name of an entry other than original
\* is skipped: it does not reach os.rename, the directory stays as it is, and
\* the loop goes on with the next pair.
ConflictSkipped ==
    [][(pc = "loop" /\ idx <= Len(rename_plan) /\ New \in DOMAIN fs
            /\ New # Original)
        => (fs' = fs /\ pc' = "loop" /\ idx' = idx + 1)]_vars

\* The pairs a decision was printed for, in the order of the lines.
RECURSIVE Decisions(_)
Decisions(lines) ==
    IF lines = <<>> THEN <<>>
    ELSE LET l == lines[Len(lines)]
             rest == Decisions(SubSeq(lines, 1, Len(lines) - 1))
         IN  IF l.text \in {"Skipping", "Conflict", "Renaming"}
             THEN Append(rest, [original |-> l.original, new |-> l.new])
             ELSE rest

SomeRenameFailed == CountCalls(calls, FALSE) > 0

\* C6: when os.rename fails for a pair, the failure is reported for that
\* pair and the directory is left as it is; the run goes on, decides every
\* pair of the plan exactly once, and reaches its final summary.
FailureDoesNotAbort ==
    /\ [][(pc = "rename" /\ calls' = Append(calls, Call(Original, New, FALSE)))
            => /\ fs' = fs
               /\ out' = Append(out, Line("Failed", Original, New))
               /\ pc' = "loop"
               /\ idx' = idx + 1]_vars
    /\ []((pc = "done" /\ SomeRenameFailed)
            => /\ Decisions(out) = rename_plan
               /\ out[Len(out)].text = "Completed")
    /\ (SomeRenameFailed ~> pc = "done")

\* A run that returned after a rename failed and a later one succeeded.
FailureDoesNotAbortWitness ==
    /\ pc = "done"
    /\ \E j, k \in 1..Len(calls) : j < k /\ ~calls[j].ok /\ calls[k].ok
    /\ fs # before

\* C7: when another process has created new between the check and the
\* rename, the rename fails, is reported as failed, and leaves the directory
\* as it is.
RaceNeverOverwrites ==
    [][(pc = "rename" /\ pc' # "rename" /\ New \in DOMAIN fs
            /\ fs[New].id.origin = "other")
        => (fs' = fs /\ out' = Append(out, Line("Failed", Original, New)))]_vars

\* C10: an apply run that follows a preview of the same directory issues a
\* rename for the pairs the preview reported as to be renamed, and reports
\* as conflicts the pairs the preview reported as conflicts.
PreviewPredictsApply ==
    (pc = "done" /\ ~dry_run /\ last_run # None /\ last_run.dry_run)
    => /\ Reported(out, "Renaming") = last_run.renaming
       /\ Reported(out, "Conflict") = last_run.conflict
       /\ {<<calls[k].src, calls[k].dst>> : k \in 1..Len(calls)}
            = last_run.renaming

====
